---- MODULE Spec2Model ----
(***************************************************************************)
(* Model of libsql-server's namespace metadata store                       *)
(* (src/libsql-server/src/namespace/meta_store.rs) and of the database     *)
(* role objects (src/libsql-server/src/database.rs).                       *)
(*                                                                         *)
(* A tokio watch channel is modelled by its shared state: the value it     *)
(* holds and a version counter that every send bumps.  A watch Receiver is *)
(* a reference to that shared state plus the version it has marked seen.   *)
(* A DatabaseConfig is a number: 0 is DatabaseConfig::default(); the       *)
(* config passed by the t-th External store call is the number t, so that  *)
(* the configs stored through the channel are pairwise distinct and tell   *)
(* which call they came from; an Internal store takes any of ConfigVals.   *)
(*                                                                         *)
(* The replica database is modelled with its write-proxy connections and   *)
(* the primary behind their streams.  The pass-through WAL                 *)
(* (src/libsql-sqlite3/test/rust_suite/src/virtual_wal.rs) is run beside a *)
(* stock WAL and a primary's capturing WAL, all three driven by the same   *)
(* calls of one connection; a frame is the page it holds and its payload,  *)
(* the number of the transaction that wrote it.                            *)
(***************************************************************************)
EXTENDS Integers, Sequences, FiniteSets, TLC

VARIABLES
    handles,        \* every MetaStoreHandle created so far, in creation order;
                    \* from: the handle it was cloned from (0: none)
    cells,          \* arena of watch channels: shared state of each Sender
    configs,        \* MetaStoreInner.configs: namespace -> index in cells (0: no entry)
    internals,      \* arena of Arc<Mutex<Arc<DatabaseConfig>>> of Internal handles
    changes,        \* the mpsc change channel: queued ChangeMsg, oldest first
    tasks,          \* every External store call so far: its handle, config, position
    consumer,       \* the single consumer of changes_rx: its position and message
    persisted,      \* ids of the configs the persistent config store wrote durably
    enqueued,       \* history: ids of the messages in the order they were enqueued
    pubOrder,       \* history: ids of the configs in the order they were published
    closed_signal,  \* ReplicationLogger.closed_signal: watch channel of bool
    shutdowns,      \* number of PrimaryDatabase::shutdown calls that returned
    followers,      \* replication log followers subscribed to closed_signal
    makers,         \* number of connection_maker Arc clones handed out
    alive,          \* the MetaStore has not been dropped
    rx_closed,      \* the receiving end of the change channel is closed or dropped
    locks,          \* the locks held between two steps: the MetaStore inner lock
                    \* and the locks of the Internal handles
    replica,        \* the ReplicaDatabase: the factory its connection_maker field holds
    rhanded,        \* the factories ReplicaDatabase::connection_maker returned so far
    rshutdowns,     \* number of ReplicaDatabase::shutdown calls that returned
    rconns,         \* the write-proxy connections made by the replica's factory
    rwrites,        \* number of writes issued on replica connections so far
    primary_applied,\* number of writes the primary has applied
    local_state,    \* number of the primary's writes replayed into the replica
    stock,          \* a stock Sqlite3Wal used directly
    wrapped,        \* a WrapWal: the tuple struct around its own Sqlite3Wal
    primary,        \* a primary's capturing WAL: its Sqlite3Wal, the frames of the
                    \* transaction being written, and the replication log
    res_stock,      \* what the last operation returned on the stock WAL
    res_wrap,       \* what the last operation returned on the WrapWal
    res_prim,       \* what the last operation returned on the primary's WAL
    commits,        \* history: the transactions committed on the primary, in order
    wal_in          \* the arguments of the last insert_frames call

metaVars == <<handles, cells, configs, internals, changes, tasks, consumer,
              persisted, enqueued, pubOrder>>
dbVars == <<closed_signal, shutdowns, followers, makers>>
replVars == <<replica, rhanded, rshutdowns, rconns, rwrites, primary_applied,
              local_state>>
\* what the meta store and the primary database never touch
walVars == <<stock, wrapped, primary, res_stock, res_wrap, res_prim, commits,
             wal_in>>
lifeVars == <<alive, rx_closed, locks>>
otherVars == <<lifeVars, replVars, walVars>>
vars == <<handles, cells, configs, internals, changes, tasks, consumer,
          persisted, enqueued, pubOrder, closed_signal, shutdowns, followers,
          makers, otherVars>>

\* ---------------------------------------------------------------- bounds
MaxHandles == 2
MaxStores == 2
MaxQueue == 1
MaxShutdowns == 2
MaxFollowers == 2
MaxMakers == 2
MaxConns == 2
MaxWrites == 2
MaxFrames == 3

\* ------------------------------------------------------------- constants
CHANNEL_CAPACITY == 256

INTERNAL_NAMESPACE == "_libsql_server_internal"

Namespaces == {"n1", "n2"}

ConfigVals == {1, 2}

\* DatabaseConfig::default() behind a fresh Arc
DefaultConfig == 0

\* The capacity the model runs the channel with: the program's, cut to the bound.
Capacity == IF CHANNEL_CAPACITY < MaxQueue THEN CHANNEL_CAPACITY ELSE MaxQueue

Range(s) == {s[i] : i \in 1..Len(s)}

\* MetaStore.inner: the parking_lot Mutex around MetaStoreInner
InnerLock == [lock |-> "inner", cell |-> 0]

\* The Mutex of the Internal handles that share the config at index c of internals
InternalLock(c) == [lock |-> "internal", cell |-> c]

\* ------------------------------------------------------------ meta store

\* MetaStore::new: no namespace has a watch channel, the change channel is empty.
InitMeta ==
    /\ handles = <<>>
    /\ cells = <<>>
    /\ configs = [n \in Namespaces |-> 0]
    /\ internals = <<>>
    /\ changes = <<>>
    /\ tasks = <<>>
    /\ consumer = [pc |-> "recv", msg |-> <<>>]
    /\ persisted = {}
    /\ enqueued = <<>>
    /\ pubOrder = <<>>
    /\ alive = TRUE
    /\ rx_closed = FALSE
    /\ locks = {}

\* A PrimaryDatabase just built: the logger is open, nothing was handed out
InitDb ==
    /\ closed_signal = [value |-> FALSE, version |-> 0]
    /\ shutdowns = 0
    /\ followers = <<>>
    /\ makers = 0

\* The one factory a ReplicaDatabase is built around
ReplicaFactory == 1

\* A ReplicaDatabase just built: it holds its factory, nothing was handed out
InitReplica ==
    /\ replica = [connection_maker |-> ReplicaFactory]
    /\ rhanded = <<>>
    /\ rshutdowns = 0
    /\ rconns = <<>>
    /\ rwrites = 0
    /\ primary_applied = 0
    /\ local_state = 0

\* The pages of the database file and the batches of pages a statement writes
Pages == {1, 2}
Batches == {<<1>>, <<2>>, <<1, 2>>}

\* A database file with an empty log that no connection has opened.  frames: the
\* log, each frame the page it holds and its payload; committed: the frames up to
\* the last commit frame; backfilled: the frames folded into the database file;
\* db: the database file, page by page; seen: the commit mark the last read
\* transaction saw.
NoWal == [open |-> FALSE, frames |-> <<>>, committed |-> 0, backfilled |-> 0,
          db |-> [pg \in Pages |-> 0], reading |-> FALSE, writing |-> FALSE,
          seen |-> 0]

\* Nothing was called yet
NoRes == [op |-> "none", code |-> "OK", val |-> 0]

\* The three WALs before the connection opens them
InitWal ==
    /\ stock = NoWal
    /\ wrapped = <<NoWal>>
    /\ primary = [inner |-> NoWal, buffer |-> <<>>, log |-> <<>>]
    /\ res_stock = NoRes
    /\ res_wrap = NoRes
    /\ res_prim = NoRes
    /\ commits = <<>>
    /\ wal_in = [pages |-> <<>>, data |-> 0, commit |-> FALSE]

Init == InitMeta /\ InitDb /\ InitReplica /\ InitWal

\* watch::channel(init): shared state of a new channel
WatchChannel(init) == [value |-> init, version |-> 0]

\* Sender::send / send_replace: replace the value, bump the version, wake receivers
WatchSend(cell, v) == [value |-> v, version |-> cell.version + 1]

\* Sender::subscribe: a receiver that has seen the current version
Subscribe(cell) == cell.version

\* MetaStore::handle with the map entry replaced on every call (mutant)
HandleInsert(n) ==
    /\ alive
    /\ InnerLock \notin locks
    /\ Len(handles) < MaxHandles
    /\ cells' = Append(cells, WatchChannel(DefaultConfig))
    /\ configs' = [configs EXCEPT ![n] = Len(cells) + 1]
    /\ handles' = Append(handles, [kind |-> "External", ns |-> n,
                                   cell |-> Len(cells) + 1, ver |-> 0, from |-> 0])
    /\ UNCHANGED <<internals, changes, tasks, consumer, persisted, enqueued,
                   pubOrder, dbVars, otherVars>>

\* A handle() that returns with the inner lock still held (mutant)
HandleKeepsLock(n) ==
    /\ alive
    /\ InnerLock \notin locks
    /\ Len(handles) < MaxHandles
    /\ IF configs[n] = 0
          THEN /\ cells' = Append(cells, WatchChannel(DefaultConfig))
               /\ configs' = [configs EXCEPT ![n] = Len(cells) + 1]
          ELSE UNCHANGED <<cells, configs>>
    /\ handles' = Append(handles, [kind |-> "External", ns |-> n,
                                   cell |-> configs'[n],
                                   ver |-> Subscribe(cells'[configs'[n]]),
                                   from |-> 0])
    /\ locks' = locks \cup {InnerLock}
    /\ UNCHANGED <<internals, changes, tasks, consumer, persisted, enqueued,
                   pubOrder, dbVars, alive, rx_closed, replVars, walVars>>

\* A handle() that keys the map by one fixed key: every namespace gets the watch
\* channel made for the first (mutant)
HandleSharedCell(n) ==
    /\ alive
    /\ InnerLock \notin locks
    /\ Len(handles) < MaxHandles
    /\ IF cells = <<>>
          THEN cells' = Append(cells, WatchChannel(DefaultConfig))
          ELSE cells' = cells
    /\ configs' = [configs EXCEPT ![n] = 1]
    /\ handles' = Append(handles, [kind |-> "External", ns |-> n, cell |-> 1,
                                   ver |-> Subscribe(cells'[1]), from |-> 0])
    /\ UNCHANGED <<internals, changes, tasks, consumer, persisted, enqueued,
                   pubOrder, dbVars, otherVars>>

\* MetaStore::handle(namespace): entry(namespace).or_insert_with(new channel),
\* then a handle holding sender.subscribe()
Handle(n) ==
    /\ alive
    /\ InnerLock \notin locks
    /\ Len(handles) < MaxHandles
    /\ IF configs[n] = 0
          THEN /\ cells' = Append(cells, WatchChannel(DefaultConfig))
               /\ configs' = [configs EXCEPT ![n] = Len(cells) + 1]
          ELSE UNCHANGED <<cells, configs>>
    /\ handles' = Append(handles, [kind |-> "External", ns |-> n,
                                   cell |-> configs'[n],
                                   ver |-> Subscribe(cells'[configs'[n]]),
                                   from |-> 0])
    /\ UNCHANGED <<internals, changes, tasks, consumer, persisted, enqueued,
                   pubOrder, dbVars, otherVars>>

\* MetaStoreHandle::internal(): a fresh lock around a default config
Internal ==
    /\ Len(handles) < MaxHandles
    /\ internals' = Append(internals, DefaultConfig)
    /\ handles' = Append(handles, [kind |-> "Internal", ns |-> INTERNAL_NAMESPACE,
                                   cell |-> Len(internals) + 1, ver |-> 0, from |-> 0])
    /\ UNCHANGED <<cells, configs, changes, tasks, consumer, persisted, enqueued,
                   pubOrder, dbVars, otherVars>>

\* A clone that copies the config of an Internal handle into a lock of its own (mutant)
CloneDeep(k) ==
    /\ k \in 1..Len(handles)
    /\ Len(handles) < MaxHandles
    /\ IF handles[k].kind = "Internal"
          THEN /\ internals' = Append(internals, internals[handles[k].cell])
               /\ handles' = Append(handles, [handles[k] EXCEPT !.from = k,
                                                  !.cell = Len(internals) + 1])
          ELSE /\ internals' = internals
               /\ handles' = Append(handles, [handles[k] EXCEPT !.from = k])
    /\ UNCHANGED <<cells, configs, changes, tasks, consumer, persisted, enqueued,
                   pubOrder, dbVars, otherVars>>

\* #[derive(Clone)] on MetaStoreHandle and HandleState: the Arc of the lock, or the
\* mpsc sender and the watch receiver (with its seen version), are cloned
Clone(k) ==
    /\ k \in 1..Len(handles)
    /\ Len(handles) < MaxHandles
    /\ handles' = Append(handles, [handles[k] EXCEPT !.from = k])
    /\ UNCHANGED <<cells, configs, internals, changes, tasks, consumer, persisted,
                   enqueued, pubOrder, dbVars, otherVars>>

\* What MetaStoreHandle::get returns on handle k
GetValue(k) ==
    IF handles[k].kind = "Internal"
       THEN internals[handles[k].cell]
       ELSE cells[handles[k].cell].value

\* A get that marks the value seen on the handle's receiver (borrow_and_update) (mutant)
GetAndUpdate(k) ==
    /\ k \in 1..Len(handles)
    /\ handles' = IF handles[k].kind = "External"
                     THEN [handles EXCEPT ![k].ver = cells[handles[k].cell].version]
                     ELSE handles
    /\ UNCHANGED <<cells, configs, internals, changes, tasks, consumer, persisted,
                   enqueued, pubOrder, dbVars, otherVars>>

\* MetaStoreHandle::get: config.lock().clone() or config.borrow().clone()
Get(k) ==
    /\ k \in 1..Len(handles)
    /\ handles[k].kind = "Internal" => InternalLock(handles[k].cell) \notin locks
    /\ UNCHANGED <<handles, cells, configs, internals, changes, tasks, consumer,
                   persisted, enqueued, pubOrder, dbVars, otherVars>>

\* MetaStoreHandle::store on an Internal handle: *config.lock() = new_config; Ok(())
StoreInternal(k, x) ==
    /\ k \in 1..Len(handles)
    /\ handles[k].kind = "Internal"
    /\ InternalLock(handles[k].cell) \notin locks
    /\ internals' = [internals EXCEPT ![handles[k].cell] = x]
    /\ UNCHANGED <<handles, cells, configs, changes, tasks, consumer, persisted,
                   enqueued, pubOrder, dbVars, otherVars>>

\* A message that names the namespace of the oldest External handle instead of the
\* sending handle's own (mutant)
ChangeMsgFirstNs(k, c) ==
    [ns |-> handles[CHOOSE i \in 1..Len(handles) :
                        /\ handles[i].kind = "External"
                        /\ \A j \in 1..(i - 1) : handles[j].kind # "External"].ns,
     cfg |-> c]

\* The message a store call on handle k sends for config c:
\* (self.namespace.clone(), new_config.into())
ChangeMsg(k, c) == [ns |-> handles[k].ns, cfg |-> c]

\* MetaStoreHandle::store on an External handle is polled for the first time, with a
\* new config.  changes_tx.send(..).await completes at once when the channel has
\* room: the message is enqueued and the call goes on to config.clone(), a receiver
\* with the handle's seen version, and awaits changed().  When the channel is full
\* the call is suspended in send.
StoreCall(k) ==
    /\ k \in 1..Len(handles)
    /\ handles[k].kind = "External"
    /\ ~rx_closed
    /\ Len(tasks) < MaxStores
    /\ LET c == Len(tasks) + 1 IN
       IF Len(changes) < Capacity
          THEN /\ changes' = Append(changes, ChangeMsg(k, c))
               /\ enqueued' = Append(enqueued, c)
               /\ tasks' = Append(tasks, [h |-> k, cfg |-> c, pc |-> "wait",
                                          rx |-> handles[k].ver])
          ELSE /\ tasks' = Append(tasks, [h |-> k, cfg |-> c, pc |-> "send",
                                          rx |-> 0])
               /\ UNCHANGED <<changes, enqueued>>
    /\ UNCHANGED <<handles, cells, configs, internals, consumer, persisted,
                   pubOrder, dbVars, otherVars>>

\* A suspended send that enqueues without waiting for room (mutant)
StoreSendNoCapacity(t) ==
    /\ t \in 1..Len(tasks)
    /\ tasks[t].pc = "send"
    /\ ~rx_closed
    /\ changes' = Append(changes, ChangeMsg(tasks[t].h, tasks[t].cfg))
    /\ enqueued' = Append(enqueued, tasks[t].cfg)
    /\ tasks' = [tasks EXCEPT ![t].pc = "wait", ![t].rx = handles[tasks[t].h].ver]
    /\ UNCHANGED <<handles, cells, configs, internals, consumer, persisted,
                   pubOrder, dbVars, otherVars>>

\* A call suspended in changes_tx.send(..).await is woken once the channel has room:
\* the message is enqueued, the receiver is cloned and the call awaits changed()
StoreSend(t) ==
    /\ t \in 1..Len(tasks)
    /\ tasks[t].pc = "send"
    /\ ~rx_closed
    /\ Len(changes) < Capacity
    /\ changes' = Append(changes, ChangeMsg(tasks[t].h, tasks[t].cfg))
    /\ enqueued' = Append(enqueued, tasks[t].cfg)
    /\ tasks' = [tasks EXCEPT ![t].pc = "wait", ![t].rx = handles[tasks[t].h].ver]
    /\ UNCHANGED <<handles, cells, configs, internals, consumer, persisted,
                   pubOrder, dbVars, otherVars>>

\* A wait that completes only while the channel holds the call's own config (mutant)
StoreChangedOwnValue(t) ==
    /\ t \in 1..Len(tasks)
    /\ tasks[t].pc = "wait"
    /\ cells[handles[tasks[t].h].cell].value = tasks[t].cfg
    /\ tasks' = [tasks EXCEPT ![t].pc = "done", ![t].rx = 0]
    /\ UNCHANGED <<handles, cells, configs, internals, changes, consumer, persisted,
                   enqueued, pubOrder, dbVars, otherVars>>

\* Receiver::changed() on the cloned receiver completes when the channel's version
\* differs from the one the clone has seen; the clone is dropped and store returns Ok(())
StoreChanged(t) ==
    /\ t \in 1..Len(tasks)
    /\ tasks[t].pc = "wait"
    /\ cells[handles[tasks[t].h].cell].version # tasks[t].rx
    /\ tasks' = [tasks EXCEPT ![t].pc = "done", ![t].rx = 0]
    /\ UNCHANGED <<handles, cells, configs, internals, changes, consumer, persisted,
                   enqueued, pubOrder, dbVars, otherVars>>

\* A drop that also takes the call's message back out of the channel (mutant)
DropStoreCancels(t) ==
    /\ t \in 1..Len(tasks)
    /\ tasks[t].pc \in {"send", "wait"}
    /\ tasks' = [tasks EXCEPT ![t].pc = "dropped", ![t].rx = 0]
    /\ changes' = SelectSeq(changes, LAMBDA m : m.cfg # tasks[t].cfg)
    /\ UNCHANGED <<handles, cells, configs, internals, consumer, persisted,
                   enqueued, pubOrder, dbVars, otherVars>>

\* The task awaiting store is dropped at one of its two await points
DropStore(t) ==
    /\ t \in 1..Len(tasks)
    /\ tasks[t].pc \in {"send", "wait"}
    /\ tasks' = [tasks EXCEPT ![t].pc = "dropped", ![t].rx = 0]
    /\ UNCHANGED <<handles, cells, configs, internals, changes, consumer, persisted,
                   enqueued, pubOrder, dbVars, otherVars>>

\* The consumer takes the oldest message from changes_rx, which it reaches through
\* the inner lock, with a receive that does not suspend
ConsumerRecv ==
    /\ consumer.pc = "recv"
    /\ InnerLock \notin locks
    /\ changes # <<>>
    /\ consumer' = [pc |-> "persist", msg |-> <<Head(changes)>>]
    /\ changes' = Tail(changes)
    /\ UNCHANGED <<handles, cells, configs, internals, tasks, persisted, enqueued,
                   pubOrder, dbVars, otherVars>>

\* A consumer that goes on to publish without the durable write (mutant)
ConsumerPersistSkipped ==
    /\ consumer.pc = "persist"
    /\ consumer' = [consumer EXCEPT !.pc = "publish"]
    /\ UNCHANGED <<handles, cells, configs, internals, changes, tasks, persisted,
                   enqueued, pubOrder, dbVars, otherVars>>

\* The consumer writes the config durably through the persistent config store
ConsumerPersist ==
    /\ consumer.pc = "persist"
    /\ persisted' = persisted \cup {consumer.msg[1].cfg}
    /\ consumer' = [consumer EXCEPT !.pc = "publish"]
    /\ UNCHANGED <<handles, cells, configs, internals, changes, tasks, enqueued,
                   pubOrder, dbVars, otherVars>>

\* The consumer publishes the config into the namespace's watch channel
ConsumerPublish ==
    /\ consumer.pc = "publish"
    /\ InnerLock \notin locks
    /\ LET m == consumer.msg[1] IN
         /\ cells' = [cells EXCEPT ![configs[m.ns]] = WatchSend(@, m.cfg)]
         /\ pubOrder' = Append(pubOrder, m.cfg)
    /\ consumer' = [pc |-> "recv", msg |-> <<>>]
    /\ UNCHANGED <<handles, configs, internals, changes, tasks, persisted, enqueued,
                   dbVars, otherVars>>

Consumer == ConsumerRecv \/ ConsumerPersist \/ ConsumerPublish

\* ------------------------------------------------- the store's lifetime

\* The watch Sender of cell c is still held by the map of a MetaStore
SenderAlive(c) == \E n \in Namespaces : configs[n] = c

\* The MetaStore is dropped while handles of it are still around: the consumer,
\* which works on the store, is between two messages and ends with it; changes_rx
\* is dropped, which closes the channel and discards what is queued, and so is
\* every watch Sender of the map
DropMetaStore ==
    /\ alive
    /\ consumer.pc = "recv"
    /\ alive' = FALSE
    /\ rx_closed' = TRUE
    /\ configs' = [n \in Namespaces |-> 0]
    /\ changes' = <<>>
    /\ consumer' = [pc |-> "gone", msg |-> <<>>]
    /\ UNCHANGED <<handles, cells, internals, tasks, persisted, enqueued, pubOrder,
                   locks, dbVars, replVars, walVars>>

\* store on an External handle whose channel is closed:
\* changes_tx.send(..).await is Err and .unwrap() panics
StoreCallFails(k) ==
    /\ k \in 1..Len(handles)
    /\ handles[k].kind = "External"
    /\ rx_closed
    /\ Len(tasks) < MaxStores
    /\ tasks' = Append(tasks, [h |-> k, cfg |-> Len(tasks) + 1, pc |-> "panicked",
                               rx |-> 0])
    /\ UNCHANGED <<handles, cells, configs, internals, changes, consumer, persisted,
                   enqueued, pubOrder, dbVars, otherVars>>

\* A call suspended in changes_tx.send(..).await when the channel is closed:
\* send is Err and .unwrap() panics
StoreSendFails(t) ==
    /\ t \in 1..Len(tasks)
    /\ tasks[t].pc = "send"
    /\ rx_closed
    /\ tasks' = [tasks EXCEPT ![t].pc = "panicked"]
    /\ UNCHANGED <<handles, cells, configs, internals, changes, consumer, persisted,
                   enqueued, pubOrder, dbVars, otherVars>>

\* A call awaiting changed() on a channel whose Sender is dropped and that holds no
\* version the clone has not seen: changed() is Err and .unwrap() panics
StoreChangedFails(t) ==
    /\ t \in 1..Len(tasks)
    /\ tasks[t].pc = "wait"
    /\ ~SenderAlive(handles[tasks[t].h].cell)
    /\ cells[handles[tasks[t].h].cell].version = tasks[t].rx
    /\ tasks' = [tasks EXCEPT ![t].pc = "panicked", ![t].rx = 0]
    /\ UNCHANGED <<handles, cells, configs, internals, changes, consumer, persisted,
                   enqueued, pubOrder, dbVars, otherVars>>

\* -------------------------------------------------------------- database

\* Sender::send: fails, leaving the value as it was, when no receiver is left
WatchSendChecked(cell, v, receivers) ==
    IF receivers = 0 THEN cell ELSE [value |-> v, version |-> cell.version + 1]

\* A shutdown that signals with Sender::send and ignores its error (mutant)
ShutdownSend ==
    /\ shutdowns < MaxShutdowns
    /\ closed_signal' = WatchSendChecked(closed_signal, TRUE,
                            Cardinality({f \in 1..Len(followers) :
                                            followers[f].pc = "following"}))
    /\ shutdowns' = shutdowns + 1
    /\ UNCHANGED <<followers, makers, metaVars, otherVars>>

\* PrimaryDatabase::shutdown: self.logger.closed_signal.send_replace(true)
Shutdown ==
    /\ shutdowns < MaxShutdowns
    /\ closed_signal' = WatchSend(closed_signal, TRUE)
    /\ shutdowns' = shutdowns + 1
    /\ UNCHANGED <<followers, makers, metaVars, otherVars>>

\* PrimaryDatabase::connection_maker: self.connection_maker.clone()
ConnectionMaker ==
    /\ makers < MaxMakers
    /\ makers' = makers + 1
    /\ UNCHANGED <<closed_signal, shutdowns, followers, metaVars, otherVars>>

\* A replication stream starts following the log: it subscribes to closed_signal
FollowerSubscribe ==
    /\ Len(followers) < MaxFollowers
    /\ followers' = Append(followers, [seen |-> Subscribe(closed_signal),
                                       pc |-> "following"])
    /\ UNCHANGED <<closed_signal, shutdowns, makers, metaVars, otherVars>>

\* A follower is woken by a change of closed_signal and ends when it reads true
FollowerObserve(f) ==
    /\ f \in 1..Len(followers)
    /\ followers[f].pc = "following"
    /\ closed_signal.version # followers[f].seen
    /\ followers' = [followers EXCEPT
                        ![f] = [seen |-> closed_signal.version,
                                pc |-> IF closed_signal.value THEN "terminated"
                                                              ELSE "following"]]
    /\ UNCHANGED <<closed_signal, shutdowns, makers, metaVars, otherVars>>

\* ------------------------------------------------------- replica database

\* A shutdown that tears down the streams of the replica's connections (mutant)
ReplicaShutdownClosesStreams ==
    /\ rshutdowns < MaxShutdowns
    /\ rshutdowns' = rshutdowns + 1
    /\ rconns' = [c \in 1..Len(rconns) |-> [rconns[c] EXCEPT !.stream = "failed"]]
    /\ UNCHANGED <<replica, rhanded, rwrites, primary_applied, local_state,
                   metaVars, dbVars, lifeVars, walVars>>

\* ReplicaDatabase::shutdown: fn shutdown(&self) {}
ReplicaShutdown ==
    /\ rshutdowns < MaxShutdowns
    /\ rshutdowns' = rshutdowns + 1
    /\ UNCHANGED <<replica, rhanded, rconns, rwrites, primary_applied, local_state,
                   metaVars, dbVars, lifeVars, walVars>>

\* ReplicaDatabase::connection_maker: self.connection_maker.clone(), another Arc
\* to the same factory
ReplicaConnectionMaker ==
    /\ Len(rhanded) < MaxMakers
    /\ rhanded' = Append(rhanded, replica.connection_maker)
    /\ UNCHANGED <<replica, rshutdowns, rconns, rwrites, primary_applied,
                   local_state, metaVars, dbVars, lifeVars, walVars>>

\* No result: the connection has no call that returned
NoResult == [kind |-> "none", val |-> 0]

\* A write-proxy connection as the factory makes it: its remote stream is open and
\* no call is running.  stage tells where the forwarded write is: "none",
\* "request" (on its way to the primary), "ok" / "rejected" (the primary's response
\* on its way back); sent counts how often the running write was put on the stream.
NewConn == [stream |-> "open", pc |-> "idle", op |-> "none", stage |-> "none",
            sent |-> 0, result |-> NoResult]

\* A holder of the factory makes a connection
MakeConnection ==
    /\ rhanded # <<>>
    /\ Len(rconns) < MaxConns
    /\ rconns' = Append(rconns, NewConn)
    /\ UNCHANGED <<replica, rhanded, rshutdowns, rwrites, primary_applied,
                   local_state, metaVars, dbVars, lifeVars, walVars>>

\* A read on a replica connection: executed against the local replicated state
ConnRead(c) ==
    /\ c \in 1..Len(rconns)
    /\ rconns[c].pc = "idle"
    /\ rconns' = [rconns EXCEPT ![c] = [@ EXCEPT !.pc = "returned", !.op = "read",
                                                 !.result = [kind |-> "rows",
                                                             val |-> local_state]]]
    /\ UNCHANGED <<replica, rhanded, rshutdowns, rwrites, primary_applied,
                   local_state, metaVars, dbVars, lifeVars, walVars>>

\* A write that answers Ok at once and leaves the request on the stream (mutant)
ConnWriteFireAndForget(c) ==
    /\ c \in 1..Len(rconns)
    /\ rconns[c].pc = "idle"
    /\ rwrites < MaxWrites
    /\ rwrites' = rwrites + 1
    /\ rconns' = [rconns EXCEPT
                    ![c] = IF rconns[c].stream = "open"
                              THEN [@ EXCEPT !.pc = "returned", !.op = "write",
                                             !.stage = "request", !.sent = 1,
                                             !.result = [kind |-> "ok", val |-> 0]]
                              ELSE [@ EXCEPT !.pc = "returned", !.op = "write",
                                             !.result = [kind |-> "stream_error",
                                                         val |-> 0]]]
    /\ UNCHANGED <<replica, rhanded, rshutdowns, primary_applied, local_state,
                   metaVars, dbVars, lifeVars, walVars>>

\* A write on a replica connection: serialized and sent over the remote stream, the
\* call then awaits the primary's response; on a stream that has failed the write
\* returns the stream error at once
ConnWrite(c) ==
    /\ c \in 1..Len(rconns)
    /\ rconns[c].pc = "idle"
    /\ rwrites < MaxWrites
    /\ rwrites' = rwrites + 1
    /\ rconns' = [rconns EXCEPT
                    ![c] = IF rconns[c].stream = "open"
                              THEN [@ EXCEPT !.pc = "awaiting", !.op = "write",
                                             !.stage = "request", !.sent = 1]
                              ELSE [@ EXCEPT !.pc = "returned", !.op = "write",
                                             !.result = [kind |-> "stream_error",
                                                         val |-> 0]]]
    /\ UNCHANGED <<replica, rhanded, rshutdowns, primary_applied, local_state,
                   metaVars, dbVars, lifeVars, walVars>>

\* The primary executes a forwarded write: it applies it, or rejects it with an
\* application-level error, and sends its response
PrimaryExecute(c, accept) ==
    /\ c \in 1..Len(rconns)
    /\ rconns[c].stream = "open"
    /\ rconns[c].stage = "request"
    /\ rconns' = [rconns EXCEPT ![c].stage = IF accept THEN "ok" ELSE "rejected"]
    /\ primary_applied' = IF accept THEN primary_applied + 1 ELSE primary_applied
    /\ UNCHANGED <<replica, rhanded, rshutdowns, rwrites, local_state,
                   metaVars, dbVars, lifeVars, walVars>>

\* The connection receives the primary's response and the write returns it
ConnReceive(c) ==
    /\ c \in 1..Len(rconns)
    /\ rconns[c].pc = "awaiting"
    /\ rconns[c].stream = "open"
    /\ rconns[c].stage \in {"ok", "rejected"}
    /\ rconns' = [rconns EXCEPT ![c] = [@ EXCEPT !.pc = "returned",
                                                 !.result = [kind |-> rconns[c].stage,
                                                             val |-> 0],
                                                 !.stage = "none"]]
    /\ UNCHANGED <<replica, rhanded, rshutdowns, rwrites, primary_applied,
                   local_state, metaVars, dbVars, lifeVars, walVars>>

\* The remote stream of a connection fails; what was on it is lost
StreamFail(c) ==
    /\ c \in 1..Len(rconns)
    /\ rconns[c].stream = "open"
    /\ rconns' = [rconns EXCEPT ![c] = [@ EXCEPT !.stream = "failed",
                                                 !.stage = "none"]]
    /\ UNCHANGED <<replica, rhanded, rshutdowns, rwrites, primary_applied,
                   local_state, metaVars, dbVars, lifeVars, walVars>>

\* A write awaiting the response learns that the stream failed and returns the
\* stream error; it does not send the write again
ConnStreamError(c) ==
    /\ c \in 1..Len(rconns)
    /\ rconns[c].pc = "awaiting"
    /\ rconns[c].stream = "failed"
    /\ rconns' = [rconns EXCEPT ![c] = [@ EXCEPT !.pc = "returned",
                                                 !.result = [kind |-> "stream_error",
                                                             val |-> 0]]]
    /\ UNCHANGED <<replica, rhanded, rshutdowns, rwrites, primary_applied,
                   local_state, metaVars, dbVars, lifeVars, walVars>>

\* The caller takes the result; the connection is ready for its next call
ConnDone(c) ==
    /\ c \in 1..Len(rconns)
    /\ rconns[c].pc = "returned"
    /\ rconns' = [rconns EXCEPT ![c] = [@ EXCEPT !.pc = "idle", !.op = "none",
                                                 !.sent = 0, !.result = NoResult]]
    /\ UNCHANGED <<replica, rhanded, rshutdowns, rwrites, primary_applied,
                   local_state, metaVars, dbVars, lifeVars, walVars>>

\* The replica replays one more of the primary's writes into its local state
ReplicaReplay ==
    /\ local_state < primary_applied
    /\ local_state' = local_state + 1
    /\ UNCHANGED <<replica, rhanded, rshutdowns, rconns, rwrites, primary_applied,
                   metaVars, dbVars, lifeVars, walVars>>

\* ------------------------------------------------------------ stock WAL

Res(op, code, val) == [op |-> op, code |-> code, val |-> val]

\* The first n frames of a log
Prefix(frames, n) == SubSeq(frames, 1, n)

\* The frames a batch of pages with payload data adds to the log
NewFrames(pages, data) == [i \in 1..Len(pages) |-> [pgno |-> pages[i], data |-> data]]

\* The last of the frames lo+1..hi that holds page pg, 0 when none does
LastFrameOf(frames, pg, lo, hi) ==
    LET fs == {i \in (lo + 1)..hi : frames[i].pgno = pg} IN
    IF fs = {} THEN 0 ELSE CHOOSE i \in fs : \A j \in fs : j <= i

\* CreateSqlite3Wal::open: binds a WAL to the file, or fails to open it
Sqlite3Open(w, io_ok) ==
    IF io_ok THEN [w |-> [w EXCEPT !.open = TRUE], res |-> Res("open", "OK", 0)]
             ELSE [w |-> w, res |-> Res("open", "CANTOPEN", 0)]

\* CreateSqlite3Wal::close: the connection lets go of the WAL; what was not
\* committed is gone
Sqlite3Close(w) ==
    [w |-> [w EXCEPT !.open = FALSE, !.reading = FALSE, !.writing = FALSE,
                     !.frames = Prefix(w.frames, w.committed)],
     res |-> Res("close", "OK", 0)]

\* begin_read_txn: takes a snapshot and tells whether the log changed since the last
Sqlite3BeginReadTxn(w) ==
    [w |-> [w EXCEPT !.reading = TRUE, !.seen = w.committed],
     res |-> Res("begin_read_txn", "OK", IF w.seen # w.committed THEN 1 ELSE 0)]

\* end_read_txn
Sqlite3EndReadTxn(w) ==
    [w |-> [w EXCEPT !.reading = FALSE], res |-> Res("end_read_txn", "OK", 0)]

\* find_frame: the newest frame of the page that the connection can see and that
\* is not yet in the database file; 0 sends the reader to the database file
Sqlite3FindFrame(w, pg) ==
    [w |-> w,
     res |-> Res("find_frame", "OK",
                 LastFrameOf(w.frames, pg, w.backfilled,
                             IF w.writing THEN Len(w.frames) ELSE w.committed))]

\* read_frame: the payload of a frame of the log, an I/O error past its end
Sqlite3ReadFrame(w, f) ==
    [w |-> w,
     res |-> IF f \in 1..Len(w.frames) THEN Res("read_frame", "OK", w.frames[f].data)
                                       ELSE Res("read_frame", "IOERR", 0)]

\* begin_write_txn: takes the write lock, or reports that another connection has it
Sqlite3BeginWriteTxn(w, busy) ==
    IF busy THEN [w |-> w, res |-> Res("begin_write_txn", "BUSY", 0)]
            ELSE [w |-> [w EXCEPT !.writing = TRUE],
                  res |-> Res("begin_write_txn", "OK", 0)]

\* end_write_txn: releases the write lock; frames after the last commit are dead
Sqlite3EndWriteTxn(w) ==
    [w |-> [w EXCEPT !.writing = FALSE, !.frames = Prefix(w.frames, w.committed)],
     res |-> Res("end_write_txn", "OK", 0)]

\* undo: rolls the log back to the last commit
Sqlite3Undo(w) ==
    [w |-> [w EXCEPT !.frames = Prefix(w.frames, w.committed)],
     res |-> Res("undo", "OK", 0)]

\* savepoint: writes the current end of the log into the caller's rollback data
Sqlite3Savepoint(w) ==
    [w |-> w, res |-> Res("savepoint", "OK", Len(w.frames))]

\* savepoint_undo: rolls the log back to the mark in the rollback data
Sqlite3SavepointUndo(w, mark) ==
    [w |-> IF mark \in w.committed..Len(w.frames)
              THEN [w EXCEPT !.frames = Prefix(w.frames, mark)]
              ELSE w,
     res |-> Res("savepoint_undo", "OK", 0)]

\* insert_frames: appends the batch to the log, as a commit when is_commit is set;
\* on an I/O error nothing is appended
Sqlite3InsertFrames(w, pages, data, is_commit, io_ok) ==
    IF io_ok
       THEN [w |-> [w EXCEPT !.frames = w.frames \o NewFrames(pages, data),
                             !.committed = IF is_commit
                                              THEN Len(w.frames) + Len(pages)
                                              ELSE w.committed],
             res |-> Res("insert_frames", "OK", 0)]
       ELSE [w |-> w, res |-> Res("insert_frames", "IOERR", 0)]

\* checkpoint: folds the committed frames into the database file and reports how
\* many are folded, or reports that the busy handler gave up
Sqlite3Checkpoint(w, busy) ==
    IF busy
       THEN [w |-> w, res |-> Res("checkpoint", "BUSY", 0)]
       ELSE [w |-> [w EXCEPT
                      !.db = [pg \in Pages |->
                                LET f == LastFrameOf(w.frames, pg, w.backfilled,
                                                     w.committed) IN
                                IF f = 0 THEN w.db[pg] ELSE w.frames[f].data],
                      !.backfilled = w.committed],
             res |-> Res("checkpoint", "OK", w.committed)]

\* ------------------------------------------------------ pass-through WAL

\* WrapCreateWal::open: self.inner.open(..).map(WrapWal)
WrapOpen(ww, io_ok) ==
    LET r == Sqlite3Open(ww[1], io_ok) IN [w |-> <<r.w>>, res |-> r.res]

\* WrapCreateWal::close: self.inner.close(&mut wal.0, ..)
WrapClose(ww) ==
    LET r == Sqlite3Close(ww[1]) IN [w |-> <<r.w>>, res |-> r.res]

\* WrapWal::begin_read_txn: self.0.begin_read_txn()
WrapBeginReadTxn(ww) ==
    LET r == Sqlite3BeginReadTxn(ww[1]) IN [w |-> <<r.w>>, res |-> r.res]

\* WrapWal::end_read_txn: self.0.end_read_txn()
WrapEndReadTxn(ww) ==
    LET r == Sqlite3EndReadTxn(ww[1]) IN [w |-> <<r.w>>, res |-> r.res]

\* WrapWal::find_frame: self.0.find_frame(page_no)
WrapFindFrame(ww, pg) ==
    LET r == Sqlite3FindFrame(ww[1], pg) IN [w |-> <<r.w>>, res |-> r.res]

\* A read_frame that hands back an untouched buffer when the read fails (mutant)
WrapReadFrameSwallows(ww, f) ==
    LET r == Sqlite3ReadFrame(ww[1], f) IN
    [w |-> <<r.w>>, res |-> Res("read_frame", "OK", r.res.val)]

\* WrapWal::read_frame: self.0.read_frame(frame_no, buffer)
WrapReadFrame(ww, f) ==
    LET r == Sqlite3ReadFrame(ww[1], f) IN [w |-> <<r.w>>, res |-> r.res]

\* WrapWal::begin_write_txn: self.0.begin_write_txn()
WrapBeginWriteTxn(ww, busy) ==
    LET r == Sqlite3BeginWriteTxn(ww[1], busy) IN [w |-> <<r.w>>, res |-> r.res]

\* WrapWal::end_write_txn: self.0.end_write_txn()
WrapEndWriteTxn(ww) ==
    LET r == Sqlite3EndWriteTxn(ww[1]) IN [w |-> <<r.w>>, res |-> r.res]

\* WrapWal::undo: self.0.undo(handler)
WrapUndo(ww) ==
    LET r == Sqlite3Undo(ww[1]) IN [w |-> <<r.w>>, res |-> r.res]

\* WrapWal::savepoint: self.0.savepoint(rollback_data)
WrapSavepoint(ww) ==
    LET r == Sqlite3Savepoint(ww[1]) IN [w |-> <<r.w>>, res |-> r.res]

\* WrapWal::savepoint_undo: self.0.savepoint_undo(rollback_data)
WrapSavepointUndo(ww, mark) ==
    LET r == Sqlite3SavepointUndo(ww[1], mark) IN [w |-> <<r.w>>, res |-> r.res]

\* An insert_frames that never passes the commit flag on (mutant)
WrapInsertFramesNoCommit(ww, pages, data, is_commit, io_ok) ==
    LET r == Sqlite3InsertFrames(ww[1], pages, data, FALSE, io_ok) IN
    [w |-> <<r.w>>, res |-> r.res]

\* WrapWal::insert_frames:
\* self.0.insert_frames(page_size, page_headers, size_after, is_commit, sync_flags)
WrapInsertFrames(ww, pages, data, is_commit, io_ok) ==
    LET r == Sqlite3InsertFrames(ww[1], pages, data, is_commit, io_ok) IN
    [w |-> <<r.w>>, res |-> r.res]

\* WrapWal::checkpoint: self.0.checkpoint(db, mode, busy_handler, sync_flags, buf)
WrapCheckpoint(ww, busy) ==
    LET r == Sqlite3Checkpoint(ww[1], busy) IN [w |-> <<r.w>>, res |-> r.res]

\* ---------------------------------------------------- primary-side capture

\* An operation the capturing WAL hands to its inner WAL as it is
ReplDelegate(p, r) == [w |-> [p EXCEPT !.inner = r.w], res |-> r.res]

\* An operation after which the frames of the transaction being written are gone
ReplAbandon(p, r) == [w |-> [p EXCEPT !.inner = r.w, !.buffer = <<>>], res |-> r.res]

\* A capture that mirrors the batch into the log before it looks at the result of
\* the underlying insert (mutant)
ReplInsertFramesEager(p, pages, data, is_commit, io_ok) ==
    LET r == Sqlite3InsertFrames(p.inner, pages, data, is_commit, io_ok) IN
    [w |-> [inner |-> r.w, buffer |-> <<>>,
            log |-> p.log \o NewFrames(pages, data)],
     res |-> r.res]

\* The capturing WAL's insert_frames: the underlying insert first; when it
\* succeeded the batch joins the frames of the transaction being written, and a
\* commit appends those to the replication log
ReplInsertFrames(p, pages, data, is_commit, io_ok) ==
    LET r == Sqlite3InsertFrames(p.inner, pages, data, is_commit, io_ok)
        buf == p.buffer \o NewFrames(pages, data)
    IN  IF r.res.code = "OK"
           THEN [w |-> [inner |-> r.w,
                        buffer |-> IF is_commit THEN <<>> ELSE buf,
                        log |-> IF is_commit THEN p.log \o buf ELSE p.log],
                 res |-> r.res]
           ELSE [w |-> [p EXCEPT !.inner = r.w], res |-> r.res]

\* The capturing WAL's savepoint_undo: the frames after the mark are forgotten
ReplSavepointUndo(p, mark) ==
    LET r == Sqlite3SavepointUndo(p.inner, mark) IN
    [w |-> [p EXCEPT !.inner = r.w,
                     !.buffer = IF mark \in p.inner.committed..Len(p.inner.frames)
                                   THEN Prefix(p.buffer, mark - p.inner.committed)
                                   ELSE p.buffer],
     res |-> r.res]

\* ------------------------------------------------- the connection's calls

\* The payload the connection writes: the number of the transaction it is writing
CurrentTx == Len(commits) + 1

\* The three WALs take the results rs, rw, rp of one call
Applied(rs, rw, rp) ==
    /\ stock' = rs.w
    /\ res_stock' = rs.res
    /\ wrapped' = rw.w
    /\ res_wrap' = rw.res
    /\ primary' = rp.w
    /\ res_prim' = rp.res

DoOpen(io_ok) ==
    /\ ~stock.open
    /\ Applied(Sqlite3Open(stock, io_ok), WrapOpen(wrapped, io_ok),
               ReplDelegate(primary, Sqlite3Open(primary.inner, io_ok)))
    /\ UNCHANGED <<commits, wal_in, metaVars, dbVars, lifeVars, replVars>>

DoClose ==
    /\ stock.open
    /\ Applied(Sqlite3Close(stock), WrapClose(wrapped),
               ReplAbandon(primary, Sqlite3Close(primary.inner)))
    /\ UNCHANGED <<commits, wal_in, metaVars, dbVars, lifeVars, replVars>>

DoBeginReadTxn ==
    /\ stock.open /\ ~stock.reading
    /\ Applied(Sqlite3BeginReadTxn(stock), WrapBeginReadTxn(wrapped),
               ReplDelegate(primary, Sqlite3BeginReadTxn(primary.inner)))
    /\ UNCHANGED <<commits, wal_in, metaVars, dbVars, lifeVars, replVars>>

DoEndReadTxn ==
    /\ stock.open /\ stock.reading /\ ~stock.writing
    /\ Applied(Sqlite3EndReadTxn(stock), WrapEndReadTxn(wrapped),
               ReplDelegate(primary, Sqlite3EndReadTxn(primary.inner)))
    /\ UNCHANGED <<commits, wal_in, metaVars, dbVars, lifeVars, replVars>>

DoFindFrame(pg) ==
    /\ stock.open /\ stock.reading
    /\ Applied(Sqlite3FindFrame(stock, pg), WrapFindFrame(wrapped, pg),
               ReplDelegate(primary, Sqlite3FindFrame(primary.inner, pg)))
    /\ UNCHANGED <<commits, wal_in, metaVars, dbVars, lifeVars, replVars>>

DoReadFrame(f) ==
    /\ stock.open /\ stock.reading
    /\ Applied(Sqlite3ReadFrame(stock, f), WrapReadFrame(wrapped, f),
               ReplDelegate(primary, Sqlite3ReadFrame(primary.inner, f)))
    /\ UNCHANGED <<commits, wal_in, metaVars, dbVars, lifeVars, replVars>>

DoBeginWriteTxn(busy) ==
    /\ stock.open /\ stock.reading /\ ~stock.writing
    /\ Applied(Sqlite3BeginWriteTxn(stock, busy), WrapBeginWriteTxn(wrapped, busy),
               ReplDelegate(primary, Sqlite3BeginWriteTxn(primary.inner, busy)))
    /\ UNCHANGED <<commits, wal_in, metaVars, dbVars, lifeVars, replVars>>

DoEndWriteTxn ==
    /\ stock.open /\ stock.writing
    /\ Applied(Sqlite3EndWriteTxn(stock), WrapEndWriteTxn(wrapped),
               ReplAbandon(primary, Sqlite3EndWriteTxn(primary.inner)))
    /\ UNCHANGED <<commits, wal_in, metaVars, dbVars, lifeVars, replVars>>

DoUndo ==
    /\ stock.open /\ stock.writing
    /\ Applied(Sqlite3Undo(stock), WrapUndo(wrapped),
               ReplAbandon(primary, Sqlite3Undo(primary.inner)))
    /\ UNCHANGED <<commits, wal_in, metaVars, dbVars, lifeVars, replVars>>

DoSavepoint ==
    /\ stock.open /\ stock.writing
    /\ Applied(Sqlite3Savepoint(stock), WrapSavepoint(wrapped),
               ReplDelegate(primary, Sqlite3Savepoint(primary.inner)))
    /\ UNCHANGED <<commits, wal_in, metaVars, dbVars, lifeVars, replVars>>

\* savepoint_undo with the rollback data the savepoint call before it filled in
DoSavepointUndo ==
    /\ stock.open /\ stock.writing
    /\ res_stock.op = "savepoint"
    /\ Applied(Sqlite3SavepointUndo(stock, res_stock.val),
               WrapSavepointUndo(wrapped, res_wrap.val),
               ReplSavepointUndo(primary, res_prim.val))
    /\ UNCHANGED <<commits, wal_in, metaVars, dbVars, lifeVars, replVars>>

DoInsertFrames(pages, is_commit, io_ok) ==
    /\ stock.open /\ stock.writing
    /\ Len(stock.frames) + Len(pages) <= MaxFrames
    /\ LET rp == ReplInsertFrames(primary, pages, CurrentTx, is_commit, io_ok) IN
         /\ Applied(Sqlite3InsertFrames(stock, pages, CurrentTx, is_commit, io_ok),
                    WrapInsertFrames(wrapped, pages, CurrentTx, is_commit, io_ok),
                    rp)
         /\ commits' = IF is_commit /\ rp.res.code = "OK"
                          THEN Append(commits, CurrentTx)
                          ELSE commits
    /\ wal_in' = [pages |-> pages, data |-> CurrentTx, commit |-> is_commit]
    /\ UNCHANGED <<metaVars, dbVars, lifeVars, replVars>>

DoCheckpoint(busy) ==
    /\ stock.open /\ ~stock.writing
    /\ Applied(Sqlite3Checkpoint(stock, busy), WrapCheckpoint(wrapped, busy),
               ReplDelegate(primary, Sqlite3Checkpoint(primary.inner, busy)))
    /\ UNCHANGED <<commits, wal_in, metaVars, dbVars, lifeVars, replVars>>

\* ------------------------------------------------------- specifications

Next ==
    \/ \E n \in Namespaces : Handle(n)
    \/ Internal
    \/ \E k \in 1..MaxHandles : Clone(k)
    \/ \E k \in 1..MaxHandles : Get(k)
    \/ \E k \in 1..MaxHandles, x \in ConfigVals : StoreInternal(k, x)
    \/ \E k \in 1..MaxHandles : StoreCall(k)
    \/ \E t \in 1..MaxStores : StoreSend(t)
    \/ \E t \in 1..MaxStores : StoreChanged(t)
    \/ \E t \in 1..MaxStores : DropStore(t)
    \/ ConsumerRecv
    \/ ConsumerPersist
    \/ ConsumerPublish

Spec == Init /\ [][Next]_vars

\* The consumer is a task of its own that the runtime keeps scheduling
FairSpec == Spec /\ WF_vars(Consumer)

\* A store call that was woken goes on
StoreStep == \E t \in 1..MaxStores : StoreSend(t) \/ StoreChanged(t)

\* A task that is ready to run: the consumer, or a store call that was woken
Progress == Consumer \/ StoreStep

\* The External side of the meta store: handles, gets, store calls and the consumer
NextLive ==
    \/ \E n \in Namespaces : Handle(n)
    \/ \E k \in 1..MaxHandles : Get(k)
    \/ \E k \in 1..MaxHandles : StoreCall(k)
    \/ \E t \in 1..MaxStores : StoreSend(t)
    \/ \E t \in 1..MaxStores : StoreChanged(t)
    \/ \E t \in 1..MaxStores : DropStore(t)
    \/ ConsumerRecv
    \/ ConsumerPersist
    \/ ConsumerPublish

\* The runtime does not leave ready tasks unscheduled for ever
LiveSpec == Init /\ [][NextLive]_vars /\ WF_vars(Progress)

\* The meta store with handles that may outlive it
NextLife ==
    \/ Next
    \/ DropMetaStore
    \/ \E k \in 1..MaxHandles : StoreCallFails(k)
    \/ \E t \in 1..MaxStores : StoreSendFails(t)
    \/ \E t \in 1..MaxStores : StoreChangedFails(t)

SpecLife == Init /\ [][NextLife]_vars

\* The primary database: shutdown, connection_maker and the log followers
NextDb ==
    \/ Shutdown
    \/ ConnectionMaker
    \/ FollowerSubscribe
    \/ \E f \in 1..MaxFollowers : FollowerObserve(f)

SpecDb == Init /\ [][NextDb]_vars

\* The replica database, its write-proxy connections and the primary behind them
NextReplica ==
    \/ ReplicaShutdown
    \/ ReplicaConnectionMaker
    \/ MakeConnection
    \/ \E c \in 1..MaxConns : ConnRead(c)
    \/ \E c \in 1..MaxConns : ConnWrite(c)
    \/ \E c \in 1..MaxConns, accept \in BOOLEAN : PrimaryExecute(c, accept)
    \/ \E c \in 1..MaxConns : ConnReceive(c)
    \/ \E c \in 1..MaxConns : StreamFail(c)
    \/ \E c \in 1..MaxConns : ConnStreamError(c)
    \/ \E c \in 1..MaxConns : ConnDone(c)
    \/ ReplicaReplay

SpecReplica == Init /\ [][NextReplica]_vars

\* One connection driving the stock WAL, the pass-through WAL and the primary's
\* capturing WAL with the same calls
NextWal ==
    \/ \E io_ok \in BOOLEAN : DoOpen(io_ok)
    \/ DoClose
    \/ DoBeginReadTxn
    \/ DoEndReadTxn
    \/ \E pg \in Pages : DoFindFrame(pg)
    \/ \E f \in 1..MaxFrames : DoReadFrame(f)
    \/ \E busy \in BOOLEAN : DoBeginWriteTxn(busy)
    \/ DoEndWriteTxn
    \/ DoUndo
    \/ DoSavepoint
    \/ DoSavepointUndo
    \/ \E pages \in Batches, is_commit \in BOOLEAN, io_ok \in BOOLEAN :
          DoInsertFrames(pages, is_commit, io_ok)
    \/ \E busy \in BOOLEAN : DoCheckpoint(busy)

SpecWal == Init /\ [][NextWal]_vars

\* ----------------------------------------------------------------- claims

\* Position of x in sequence s, 0 when x is not in it
Pos(s, x) == IF \E i \in 1..Len(s) : s[i] = x
                THEN CHOOSE i \in 1..Len(s) : s[i] = x
                ELSE 0

\* The namespace of the handle store call t was made on
TaskNs(t) == handles[tasks[t].h].ns

\* Config v is the config of store call t, or was published after it
SameOrNewer(v, t) ==
    \/ v = tasks[t].cfg
    \/ /\ Pos(pubOrder, tasks[t].cfg) > 0
       /\ Pos(pubOrder, v) > Pos(pubOrder, tasks[t].cfg)

\* The External handles
Externals == {k \in 1..Len(handles) : handles[k].kind = "External"}

\* The configs of seq that were stored on namespace n, in the order seq lists them
\* (config c is the one passed by store call c)
OfNs(seq, n) == SelectSeq(seq, LAMBDA c : TaskNs(c) = n)

\* C1: once a store call on an External handle has returned, a get on that handle
\* yields the config of that call or one published after it.
C1_GetAfterStore ==
    \A t \in 1..Len(tasks) :
        tasks[t].pc = "done" => SameOrNewer(GetValue(tasks[t].h), t)

\* C2: a store call on an External handle has returned only if the consumer has
\* published the config of that very call: its message is neither queued nor held
\* unpublished by the consumer.
C2_StoreReturnsAfterOwnPublish ==
    \A t \in 1..Len(tasks) :
        tasks[t].pc = "done" =>
            /\ \A i \in 1..Len(changes) : changes[i].cfg # tasks[t].cfg
            /\ \A i \in 1..Len(consumer.msg) : consumer.msg[i].cfg # tasks[t].cfg
            /\ tasks[t].cfg \in Range(pubOrder)

C4_FreshHandleSeesStore ==
    [][\A n \in Namespaces :
          Handle(n) =>
             \A t \in 1..Len(tasks) :
                (tasks[t].pc = "done" /\ TaskNs(t) = n) =>
                    SameOrNewer(cells'[handles'[Len(handles')].cell].value, t)]_vars

\* C5: the store holds exactly one watch channel for each namespace that was handed
\* a handle, every handle of the namespace reads from it, it starts with the default
\* config and no handle() call resets it (its version counts the publications).
C5_OneCellPerNamespace ==
    /\ \A n \in Namespaces :
          (configs[n] # 0) <=> (\E k \in Externals : handles[k].ns = n)
    /\ \A k \in Externals : handles[k].cell = configs[handles[k].ns]
    /\ Len(cells) = Cardinality({n \in Namespaces : configs[n] # 0})
    /\ \A n \in Namespaces :
          configs[n] # 0 =>
             /\ configs[n] \in 1..Len(cells)
             /\ cells[configs[n]].version = Len(OfNs(pubOrder, n))
             /\ cells[configs[n]].version = 0 =>
                    cells[configs[n]].value = DefaultConfig

\* C5 witness: two handles of one namespace, one made before and one after a
\* publication, read the same channel.
C5_Witness ==
    \E j, k \in Externals :
        /\ handles[j].ns = handles[k].ns
        /\ handles[j].from = 0 /\ handles[k].from = 0
        /\ handles[j].ver # handles[k].ver
        /\ handles[j].cell = handles[k].cell

\* The handle k was cloned from, through any number of clones
RECURSIVE Root(_)
Root(k) == IF handles[k].from = 0 THEN k ELSE Root(handles[k].from)

\* C6: a store of x on an Internal handle returns at once (it leaves no pending
\* call and enqueues nothing) and a get on that handle or on any clone of it then
\* returns x; the only other way an Internal config changes is that a new one is
\* made, which leaves what the existing handles read as it was.
C6_InternalRoundTrip ==
    [][internals' # internals =>
          \/ \E k \in 1..Len(handles), x \in ConfigVals :
                /\ StoreInternal(k, x)
                /\ tasks' = tasks /\ changes' = changes
                /\ \A j \in 1..Len(handles) :
                      Root(j) = Root(k) => GetValue(j)' = x
          \/ /\ Len(internals') = Len(internals) + 1
             /\ \A j \in 1..Len(handles) :
                   handles[j].kind = "Internal" => GetValue(j)' = GetValue(j)]_vars

\* C6 witness: a config was stored on an Internal handle that has a clone.
C6_Witness ==
    \E j, k \in 1..Len(handles) :
        /\ handles[k].kind = "Internal"
        /\ handles[j].from = k
        /\ GetValue(k) # DefaultConfig
        /\ GetValue(j) = GetValue(k)

\* The config published last into the channel of namespace n
LatestPublished(n) ==
    LET mine == OfNs(pubOrder, n) IN
    IF mine = <<>> THEN DefaultConfig ELSE tasks[mine[Len(mine)]].cfg

\* C7: a get on an External handle can always be taken, changes nothing (channel
\* value and version, the handle's seen version, the queue, the pending calls) and
\* returns the config published last for the namespace: the default or the config
\* of one store call.
C7_GetIsPureRead ==
    \A k \in Externals :
        /\ ENABLED Get(k)
        /\ ~ENABLED (Get(k) /\ ~UNCHANGED <<handles, cells, configs, changes, tasks,
                                            consumer, persisted, enqueued, pubOrder>>)
        /\ GetValue(k) = LatestPublished(handles[k].ns)
        /\ GetValue(k) \in {DefaultConfig} \cup {tasks[t].cfg : t \in 1..Len(tasks)}

\* C7 witness: a handle made before two publications reads the second one.
C7_Witness ==
    \E k \in Externals :
        /\ handles[k].ver = 0
        /\ cells[handles[k].cell].version = 2
        /\ GetValue(k) = pubOrder[2]

\* C8: a namespace's channel holds the default config or a config of that namespace
\* that the persistent config store has already written durably.
C8_PersistBeforePublish ==
    \A n \in Namespaces :
        configs[n] # 0 =>
           \/ cells[configs[n]].value = DefaultConfig
           \/ \E t \in 1..Len(tasks) :
                 /\ tasks[t].cfg = cells[configs[n]].value
                 /\ TaskNs(t) = n
                 /\ tasks[t].cfg \in persisted

\* C8 witness: one config is published and the next is written but not yet published.
C8_Witness ==
    /\ consumer.pc = "publish"
    /\ consumer.msg[1].cfg \in persisted
    /\ \E n \in Namespaces :
          /\ configs[n] # 0
          /\ cells[configs[n]].value # DefaultConfig
          /\ cells[configs[n]].value # consumer.msg[1].cfg

\* C9: when the task awaiting a store is dropped after its message was enqueued,
\* the message is not lost (it stays queued until the consumer takes it), the
\* consumer eventually publishes its config, and the call never returns.
C9_DroppedStoreStillLands ==
    /\ [](\A t \in 1..Len(tasks) :
             (tasks[t].pc = "dropped" /\ tasks[t].cfg \in Range(enqueued)) =>
                \/ \E i \in 1..Len(changes) : changes[i].cfg = tasks[t].cfg
                \/ \E i \in 1..Len(consumer.msg) : consumer.msg[i].cfg = tasks[t].cfg
                \/ tasks[t].cfg \in Range(pubOrder))
    /\ \A t \in 1..MaxStores :
          (t <= Len(tasks) /\ tasks[t].pc = "dropped"
                           /\ tasks[t].cfg \in Range(enqueued))
             ~> (t <= Len(tasks) /\ tasks[t].pc = "dropped"
                                 /\ tasks[t].cfg \in Range(pubOrder))

\* C9 witness: the config of a dropped store call is what its namespace's channel holds.
C9_Witness ==
    \E t \in 1..Len(tasks) :
        /\ tasks[t].pc = "dropped"
        /\ cells[handles[tasks[t].h].cell].value = tasks[t].cfg

\* C10 as claimed: after a shutdown the closed signal is true, nothing resets it,
\* and a second or later shutdown leaves the state unchanged.
C10_ShutdownLeavesStateUnchanged ==
    [][/\ shutdowns' > 0 => closed_signal'.value
       /\ closed_signal.value => closed_signal'.value
       /\ (Shutdown /\ shutdowns > 0) =>
             UNCHANGED <<closed_signal, followers, makers>>]_vars

\* C10 as amended: after a shutdown the closed signal is true, nothing resets it,
\* and a second or later shutdown leaves the signal's value, the followers and the
\* connection makers unchanged; the signal's version moves on by one, so the
\* followers still subscribed are notified again.
C10_ShutdownKeepsClosed ==
    [][/\ shutdowns' > 0 => closed_signal'.value
       /\ closed_signal.value => closed_signal'.value
       /\ (Shutdown /\ shutdowns > 0) =>
             /\ closed_signal'.value = closed_signal.value
             /\ closed_signal'.version = closed_signal.version + 1
             /\ UNCHANGED <<followers, makers>>]_vars

\* C10 witness: shutdown was called twice with no connection maker handed out and
\* no follower subscribed, and the signal reads closed.
C10_Witness ==
    /\ shutdowns = 2
    /\ makers = 0
    /\ followers = <<>>
    /\ closed_signal.value

\* C11: ReplicaDatabase::shutdown can always be called and changes nothing: the
\* replica's factory, the factories handed out, the connections, their streams and
\* the writes in flight are as before, and every connection_maker() call, before or
\* after a shutdown, returned the one factory the replica was built around.
C11_ReplicaShutdownNoOp ==
    /\ rshutdowns < MaxShutdowns => ENABLED ReplicaShutdown
    /\ ~ENABLED (ReplicaShutdown /\ ~UNCHANGED <<replica, rhanded, rconns, rwrites,
                                                 primary_applied, local_state>>)
    /\ replica.connection_maker = ReplicaFactory
    /\ \A i \in 1..Len(rhanded) : rhanded[i] = replica.connection_maker

\* C11 witness: shutdown was called twice while a connection had a write on its
\* open stream, and the factory was handed out twice.
C11_Witness ==
    /\ rshutdowns = 2
    /\ Len(rhanded) = 2
    /\ \E c \in 1..Len(rconns) :
          rconns[c].pc = "awaiting" /\ rconns[c].stream = "open"

\* C14: a call on a replica connection that returns is a read, which returns the
\* local state and touches neither the stream nor the primary, or a write, which
\* returns the response the primary sent for it (ok or the primary's rejection),
\* received on the open stream, or the stream's error with the write put on the
\* stream at most once; a write that awaits the primary has returned nothing.
C14_WriteProxy ==
    [][\A c \in 1..Len(rconns) :
          /\ rconns'[c].pc = "awaiting" => rconns'[c].result = NoResult
          /\ (rconns[c].pc # "returned" /\ rconns'[c].pc = "returned") =>
                \/ /\ rconns'[c].op = "read"
                   /\ rconns'[c].result = [kind |-> "rows", val |-> local_state]
                   /\ rconns'[c].stage = rconns[c].stage
                   /\ rconns'[c].sent = 0
                   /\ rconns'[c].stream = rconns[c].stream
                   /\ primary_applied' = primary_applied
                \/ /\ rconns'[c].op = "write"
                   /\ rconns[c].pc = "awaiting"
                   /\ rconns[c].stream = "open"
                   /\ rconns[c].stage \in {"ok", "rejected"}
                   /\ rconns'[c].result.kind = rconns[c].stage
                   /\ rconns'[c].sent = 1
                \/ /\ rconns'[c].op = "write"
                   /\ rconns[c].stream = "failed"
                   /\ rconns'[c].result.kind = "stream_error"
                   /\ rconns'[c].sent = rconns[c].sent
                   /\ rconns'[c].stage = "none"
                   /\ primary_applied' = primary_applied]_vars

\* C14 witness: one write returned the primary's rejection, another returned the
\* stream's error after it was sent once, and the primary applied nothing.
C14_Witness ==
    /\ primary_applied = 0
    /\ \E c, d \in 1..Len(rconns) :
          /\ rconns[c].pc = "returned" /\ rconns[c].op = "write"
          /\ rconns[c].result.kind = "rejected"
          /\ rconns[d].pc = "returned" /\ rconns[d].op = "write"
          /\ rconns[d].result.kind = "stream_error" /\ rconns[d].sent = 1

\* C12: after any sequence of calls made on both, the pass-through WAL holds the
\* very state the stock WAL holds (log, commit mark, checkpointed frames, database
\* file, transaction state) and its last call returned what the stock WAL's did,
\* error codes included; and every page of a batch inserted through the wrapper is
\* found and read back through the wrapper with the payload that was inserted.
C12_PassThroughEqualsStock ==
    /\ wrapped = <<stock>>
    /\ res_wrap = res_stock
    /\ (res_wrap.op = "insert_frames" /\ res_wrap.code = "OK") =>
          \A i \in 1..Len(wal_in.pages) :
              LET f == WrapFindFrame(wrapped, wal_in.pages[i]).res.val IN
              /\ f # 0
              /\ WrapReadFrame(wrapped, f).res = Res("read_frame", "OK", wal_in.data)

\* C12 witness: a commit made through the wrapper was folded into the database
\* file, and a later call through the wrapper returned the engine's BUSY.
C12_Witness ==
    /\ \E pg \in Pages : wrapped[1].db[pg] # 0
    /\ res_wrap.code = "BUSY"
    /\ Len(wrapped[1].frames) > wrapped[1].backfilled

\* C13: the replication log is the committed part of the primary's WAL, frame by
\* frame: its frames belong to committed transactions and lie in the order those
\* committed, and the frames whose insert failed, or that were not yet committed
\* or rolled back, are not in it.
C13_LogInCommitOrder ==
    /\ primary.log = Prefix(primary.inner.frames, primary.inner.committed)
    /\ primary.buffer = SubSeq(primary.inner.frames, primary.inner.committed + 1,
                               Len(primary.inner.frames))
    /\ \A i \in 1..Len(primary.log) : Pos(commits, primary.log[i].data) > 0
    /\ \A i, j \in 1..Len(primary.log) :
          i < j => Pos(commits, primary.log[i].data) <= Pos(commits, primary.log[j].data)

\* C13 witness: two transactions committed, the log holds the frames of the first
\* before those of the second, and an insert of a third has just failed.
C13_Witness ==
    /\ commits = <<1, 2>>
    /\ Len(primary.log) >= 2
    /\ primary.log[1].data = 1
    /\ primary.log[Len(primary.log)].data = 2
    /\ res_prim = Res("insert_frames", "IOERR", 0)

\* C15: no External store call ends in a panic: when its send or its wait for the
\* change fails, the call is over with an error returned to its caller ("failed").
C15_StoreReturnsTypedError ==
    \A t \in 1..Len(tasks) :
        tasks[t].pc \in {"send", "wait", "done", "dropped", "failed"}

\* The store calls suspended at one of the two await points
Suspended == {t \in 1..Len(tasks) : tasks[t].pc \in {"send", "wait"}}

\* C16: every External store call that is suspended, in the send on a full channel
\* or in the wait for the change, eventually returns, unless its caller drops it.
C16_StoreEventuallyReturns ==
    \A t \in 1..MaxStores :
        (t \in Suspended) ~> (t <= Len(tasks) /\ tasks[t].pc \in {"done", "dropped"})

\* C16 witness: a call that found the channel full has returned.
C16_Witness ==
    \E t \in 1..Len(tasks) :
        /\ tasks[t].pc = "done"
        /\ Pos(enqueued, tasks[t].cfg) > 1
        /\ \E u \in 1..Len(tasks) : tasks[u].cfg = enqueued[1] /\ tasks[u].pc = "wait"
        /\ Len(pubOrder) = 2

C18_ChannelsOpenWhileAlive ==
    alive =>
       /\ ~rx_closed
       /\ \A k \in Externals : SenderAlive(handles[k].cell)
       /\ \A k \in 1..MaxHandles : ~ENABLED StoreCallFails(k)
       /\ \A t \in 1..MaxStores :
             ~ENABLED StoreSendFails(t) /\ ~ENABLED StoreChangedFails(t)
       /\ \A t \in 1..Len(tasks) : tasks[t].pc # "panicked"

\* C18 witness: the store is alive, with handles of two namespaces, while one call
\* is suspended in send and another waits for a change that is not published yet.
C18_Witness ==
    /\ alive
    /\ \E j, k \in Externals : handles[j].ns # handles[k].ns
    /\ \E t, u \in Suspended :
          /\ tasks[t].pc = "send"
          /\ tasks[u].pc = "wait"
          /\ tasks[u].cfg \notin Range(pubOrder)

Processed == consumer.msg[1].cfg

\* C20: a watch channel changes only when the consumer publishes, and then it is
\* the channel of the namespace of the handle the store was called on: what get
\* returns on the handles of every other namespace and on the Internal handles
\* stays as it was, and no store suspended on another namespace's channel becomes
\* able to return.  An Internal config changes only by an Internal store or by a
\* new Internal handle, which leave the channel, the pending calls and every watch
\* channel as they were.
C20_NamespaceIsolation ==
    [][/\ \A c \in 1..Len(cells) :
             cells'[c] # cells[c] =>
                /\ consumer.pc = "publish"
                /\ c = handles[tasks[Processed].h].cell
                /\ internals' = internals
       /\ \A k \in 1..Len(handles) :
             GetValue(k)' # GetValue(k) =>
                \/ /\ handles[k].kind = "External"
                   /\ consumer.pc = "publish"
                   /\ handles[k].ns = TaskNs(Processed)
                \/ /\ handles[k].kind = "Internal"
                   /\ \E j \in 1..Len(handles), x \in ConfigVals : StoreInternal(j, x)
       /\ \A t \in 1..Len(tasks) :
             (tasks[t].pc = "wait" /\ ~ENABLED StoreChanged(t)
                                   /\ (ENABLED StoreChanged(t))') =>
                /\ consumer.pc = "publish"
                /\ TaskNs(t) = TaskNs(Processed)
       /\ internals' # internals =>
             /\ changes' = changes
             /\ tasks' = tasks
             /\ cells' = cells
             /\ enqueued' = enqueued]_vars

\* C20 witness: a store on one namespace was published while a store on another
\* namespace still waits, and the other namespace's channel is untouched.
C20_Witness ==
    \E t, u \in 1..Len(tasks) :
        /\ TaskNs(t) # TaskNs(u)
        /\ tasks[t].cfg \in Range(pubOrder)
        /\ tasks[u].pc = "wait"
        /\ cells[handles[tasks[u].h].cell] = WatchChannel(DefaultConfig)
        /\ GetValue(tasks[t].h) = tasks[t].cfg
====
